---- MODULE Spec2Model ----
(***************************************************************************)
(* Model of tool_module/tool_call.py: MCPClient (one subprocess, JSON-RPC  *)
(* over its stdin/stdout) and MCPToolManager (several clients, one tool    *)
(* registry).  Coroutines are tasks; a task runs without interruption from *)
(* one suspending await to the next (asyncio's cooperative scheduling),    *)
(* which the variable running expresses.                                   *)
(***************************************************************************)
EXTENDS Integers, Sequences, FiniteSets, TLC

\* ------------------------------------------------------------------ bounds
NumServers == 2
NumTools == 2
MaxListLen == 2
MaxInit == 1
MaxOps == 3
NumCallers == 2

Servers == 1..NumServers
Tools == 1..NumTools
\* a tools/list entry without a "name" key
NoName == 0
ToolEntries == Tools \cup {NoName}
ToolLists == UNION {[1..n -> ToolEntries] : n \in 0..MaxListLen}
ClientIds == 1..(MaxInit * NumServers)
Pids == 1..(MaxInit * NumServers)
TaskIds == 1..NumCallers

\* what one line of a subprocess's output can be: a response carrying a
\* result, one carrying an error, a JSON object with neither, or no JSON
Kinds == {"result", "error", "nofields", "garbage"}

VARIABLES
    config,         \* MCPToolManager.config: per configured server, whether
                    \* its entry has both "command" and "args"
    clients,        \* MCPToolManager.clients: insertion-ordered dict
    tool_registry,  \* MCPToolManager._tool_registry: tool -> server, 0 absent
    client,         \* the MCPClient objects
    nclients,       \* MCPClient objects constructed so far
    proc,           \* the subprocesses
    nprocs,         \* subprocesses launched so far
    task,           \* the coroutines
    running,        \* the task the event loop is running, 0 when none
    emitted,        \* log records written by the last step
    att,            \* what each server did during the current initialize
    fresh,          \* the current initialize began with nothing connected
    nops,           \* operations begun so far
    ninit,          \* initialize_servers calls begun so far
    agent           \* the Agent: its current state, its state graph, and
                    \* where its step() is

vars == <<config, clients, tool_registry, client, nclients, proc, nprocs,
          task, running, emitted, att, fresh, nops, ninit, agent>>

\* no Agent was constructed
NoAgent == [pc |-> "none"]

\* ------------------------------------------------------------ data values
NullLine == [kind |-> "none", id |-> 0, tools |-> <<>>, src |-> 0]

NoResult == [kind |-> "none", exc |-> "", line |-> NullLine, cat |-> <<>>]

NewClient(s) ==
    [server |-> s, process |-> 0, initialized |-> FALSE, request_id |-> 0]

NewProc ==
    [alive |-> FALSE, sig |-> "none", buf |-> <<>>, eof |-> FALSE,
     waiter |-> 0, inbox |-> {}, notified |-> FALSE, stdin |-> <<>>]

\* a write that leaves the newline out
WriteNoNewline(stream, id) == Append(stream, [id |-> id, part |-> "json"])

\* stdin.write((json.dumps(message) + "\n").encode()): the document and its
\* newline reach the stream together, in one call; id 0 for a notification
WriteLine(stream, id) ==
    stream \o <<[id |-> id, part |-> "json"], [id |-> id, part |-> "nl"]>>

IdleTask ==
    [mop |-> "none", cop |-> "none", pc |-> "idle", cl |-> 0, i |-> 0,
     req_id |-> 0, method |-> "", name |-> 0, rp |-> 0, resp |-> NullLine,
     hexc |-> "", todo |-> <<>>, acc |-> <<>>, res |-> NoResult,
     wlog |-> <<>>, again |-> FALSE, prev |-> ""]

\* how far a server got in the current initialize: "none", "nolaunch" (the
\* launch failed), "launched", "handshaken" (it answered initialize with a
\* result), "healthy" (it then answered tools/list with a result whose
\* entries all have a name: tools)
NoAttempt == [st |-> "none", tools |-> {}]

\* ----------------------------------------------------- insertion-ordered dict
DictHas(d, k) == \E j \in 1..Len(d) : d[j].name = k

DictPos(d, k) == CHOOSE j \in 1..Len(d) : d[j].name = k

DictGet(d, k) == d[DictPos(d, k)].client

DictSet(d, k, v) ==
    IF DictHas(d, k)
    THEN [d EXCEPT ![DictPos(d, k)] = [name |-> k, client |-> v]]
    ELSE Append(d, [name |-> k, client |-> v])

DictKeys(d) == {d[j].name : j \in 1..Len(d)}

\* a registry that keeps the first owner of a name
RegisterFirstWins(reg, tool, server) ==
    IF reg[tool] = 0 THEN [reg EXCEPT ![tool] = server] ELSE reg

\* self._tool_registry[tool_name] = server_name
Register(reg, tool, server) == [reg EXCEPT ![tool] = server]

\* a lookup that falls back to the first server
ResolveOrFirst(reg, tool) == IF reg[tool] = 0 THEN 1 ELSE reg[tool]

\* self._tool_registry.get(tool_name)
Resolve(reg, tool) == reg[tool]

\* the class of the exceptions the code raises, or lets through
ExcType(e) ==
    CASE e = "ValueError:unknown_tool" -> "ValueError"
      [] e \in {"RuntimeError:not_connected", "RuntimeError:not_initialized",
                "RuntimeError:tool_failed", "RuntimeError:tools_list_failed",
                "RuntimeError:init_failed", "RuntimeError:closed",
                "RuntimeError:readuntil", "RuntimeError:no_servers"}
           -> "RuntimeError"
      [] OTHER -> e

\* ------------------------------------------------------- unreachable objects
\* the MCPClient objects the manager's dict holds
Connected(cls) == {cls[j].client : j \in 1..Len(cls)}

\* An MCPClient no reference reaches is reclaimed.
CollectClients(heap, held) ==
    [c \in ClientIds |-> IF c \in held THEN heap[c] ELSE NewClient(0)]

\* A subprocess no client holds a handle of: what is left of one that exited
\* is reclaimed; one that still runs keeps running, and nobody reads its
\* output or writes to its input any more.
CollectProcs(ps, heap, held) ==
    [p \in Pids |->
        IF \E c \in held : heap[c].process = p THEN ps[p]
        ELSE [NewProc EXCEPT !.alive = ps[p].alive]]

\* ------------------------------------------------------------- scheduling
\* a task suspended in readline() until its stream is fed
Blocked(t) ==
    /\ task[t].pc = "req_wait"
    /\ proc[task[t].rp].waiter = t

Runnable(t) ==
    \/ running = t
    \/ /\ running = 0
       /\ task[t].pc \notin {"idle", "done"}
       /\ ~Blocked(t)

\* the task's operation ends: a value is returned or an exception leaves it
Done(r, kind, exc, line, cat) ==
    [IdleTask EXCEPT !.pc = "done", !.mop = r.mop, !.name = r.name,
                     !.wlog = r.wlog, !.again = r.again, !.prev = r.prev,
                     !.res = [kind |-> kind, exc |-> exc, line |-> line,
                              cat |-> cat]]

\* a manager whose handlers raise the exception again
ThrowOutRaise(r, e) == Done(r, "raise", e, NullLine, <<>>)

\* an initialize_servers whose handler leaves the loop
ThrowOutBreak(r, e) ==
    CASE r.mop = "init" ->
           [r EXCEPT !.cop = "none", !.pc = "init_next", !.i = NumServers + 1,
                     !.hexc = "", !.todo = <<>>]
      [] r.mop = "list" ->
           [r EXCEPT !.cop = "none", !.pc = "la_next", !.i = r.i + 1]
      [] r.mop = "shutdown" ->
           [r EXCEPT !.cop = "none", !.pc = "sd_next", !.i = r.i + 1,
                     !.hexc = ""]
      [] OTHER -> Done(r, "raise", e, NullLine, <<>>)

\* a list_all_tools whose handler drops what was collected before
ThrowOutListForgets(r, e) ==
    CASE r.mop = "init" ->
           [r EXCEPT !.cop = "none", !.pc = "init_next", !.i = r.i + 1,
                     !.hexc = "", !.todo = <<>>]
      [] r.mop = "list" ->
           [r EXCEPT !.cop = "none", !.pc = "la_next", !.i = r.i + 1,
                     !.acc = <<>>]
      [] r.mop = "shutdown" ->
           [r EXCEPT !.cop = "none", !.pc = "sd_next", !.i = r.i + 1,
                     !.hexc = "", !.acc = Append(@, r.i)]
      [] OTHER -> Done(r, "raise", e, NullLine, <<>>)

\* an exception leaves the client's method and reaches MCPToolManager's code
ThrowOut(r, e) ==
    CASE r.mop = "init" ->
           [r EXCEPT !.cop = "none", !.pc = "init_next", !.i = r.i + 1,
                     !.hexc = "", !.todo = <<>>]
      [] r.mop = "list" ->
           [r EXCEPT !.cop = "none", !.pc = "la_next", !.i = r.i + 1]
      [] r.mop = "shutdown" ->
           \* acc: the connections whose stop() raised, for the record
           [r EXCEPT !.cop = "none", !.pc = "sd_next", !.i = r.i + 1,
                     !.hexc = "", !.acc = Append(@, r.i)]
      [] OTHER -> Done(r, "raise", e, NullLine, <<>>)

\* a start() without its handler: the exception leaves it at once
ThrowNoStop(r, e) == ThrowOut(r, e)

\* an exception is raised inside a method of MCPClient: start() catches it,
\* stops the client and raises it again; the other methods let it through
Throw(r, e) ==
    IF r.cop = "start" /\ r.hexc = ""
    THEN [r EXCEPT !.pc = "stop_begin", !.hexc = e]
    ELSE ThrowOut(r, e)

\* the log record of an exception caught by MCPToolManager's code
ThrowOutLog(r) ==
    IF r.mop \in {"init", "list", "shutdown"}
    THEN {<<"error", "server_failed">>}
    ELSE {}

\* the log record of an exception raised inside a method of MCPClient
ThrowLog(r) ==
    IF r.cop = "start" /\ r.hexc = ""
    THEN {<<"error", "start_failed">>}
    ELSE ThrowOutLog(r)


\* -------------------------------------------------------------- MCPClient
mgr == <<config, clients, tool_registry>>
counters == <<nclients, nops, ninit, fresh>>

NextRun(r2, t) == IF r2.pc = "done" THEN 0 ELSE t

\* where _send_request returns to
AfterRead(cop) ==
    CASE cop = "start" -> "start_check"
      [] cop = "list_tools" -> "lt_check"
      [] OTHER -> "ct_check"

\* what initialize_servers saw of server s: the reply to initialize, or the
\* reply to tools/list
Range(q) == {q[j] : j \in 1..Len(q)}

Observe(a, r, line) ==
    IF r.mop # "init" \/ line.kind # "result" THEN a
    ELSE IF r.cop = "start"
         THEN [a EXCEPT ![r.i].st = "handshaken"]
         ELSE IF NoName \in Range(line.tools) THEN a
              ELSE [a EXCEPT ![r.i] = [st |-> "healthy", tools |-> Range(line.tools)]]

\* MCPClient.start up to the first await: launch the subprocess.  The old
\* handle, if any, is overwritten.
start_launch(t) ==
    LET r == task[t] IN
    /\ Runnable(t) /\ r.pc = "start_launch"
    /\ \E ok \in BOOLEAN :
         IF ok
         THEN /\ nprocs < MaxInit * NumServers
              /\ nprocs' = nprocs + 1
              /\ proc' = [proc EXCEPT ![nprocs + 1] = [NewProc EXCEPT !.alive = TRUE]]
              /\ client' = [client EXCEPT ![r.cl].process = nprocs + 1]
              /\ task' = [task EXCEPT ![t] = [r EXCEPT !.pc = "req_begin",
                                                     !.method = "initialize"]]
              /\ att' = IF r.mop = "init" THEN [att EXCEPT ![r.i].st = "launched"]
                        ELSE att
              /\ emitted' = {<<"info", "starting">>}
              /\ running' = 0
         ELSE /\ task' = [task EXCEPT ![t] = Throw(r, "OSError")]
              /\ emitted' = {<<"info", "starting">>} \cup ThrowLog(r)
              /\ running' = t
              /\ att' = IF r.mop = "init" THEN [att EXCEPT ![r.i].st = "nolaunch"]
                        ELSE att
              /\ UNCHANGED <<proc, nprocs, client>>
    /\ UNCHANGED <<mgr, counters>>
    /\ UNCHANGED agent

\* MCPClient._send_request up to the read: take the next id, write the
\* request line, drain
send_request(t) ==
    LET r == task[t]
        c == r.cl
        id == client[c].request_id + 1
        p == client[c].process
        w == [r EXCEPT !.req_id = id,
                       !.wlog = Append(@, [pid |-> p, method |-> r.method,
                                           name |-> r.name, id |-> id])]
    IN
    /\ Runnable(t) /\ r.pc = "req_begin"
    /\ client' = [client EXCEPT ![c].request_id = id]
    /\ IF p = 0
       THEN /\ task' = [task EXCEPT ![t] = Throw([r EXCEPT !.req_id = id],
                                                 "AttributeError")]
            /\ running' = NextRun(task'[t], t)
            /\ emitted' = ThrowLog(r)
            /\ UNCHANGED proc
       ELSE IF proc[p].alive
       THEN /\ proc' = [proc EXCEPT ![p].inbox =
                          @ \cup {[id |-> id, method |-> r.method]},
                                    ![p].stdin = WriteLine(@, id)]
            /\ task' = [task EXCEPT ![t] = [w EXCEPT !.pc = "req_read"]]
            /\ running' \in {0, t}
            /\ emitted' = {}
       ELSE \* the pipe is closed: drain() suspends, then raises
            /\ task' = [task EXCEPT ![t] = Throw(w, "ConnectionResetError")]
            /\ running' = 0
            /\ emitted' = ThrowLog(r)
            /\ UNCHANGED proc
    /\ UNCHANGED <<mgr, counters, nprocs, att>>
    /\ UNCHANGED agent

\* StreamReader.readline on the output of subprocess p, as task t runs it
ReadLine(t, p) ==
    LET r == task[t] IN
    IF proc[p].buf # <<>>
    THEN LET line == Head(proc[p].buf) IN
         /\ proc' = [proc EXCEPT ![p].buf = Tail(@)]
         /\ att' = Observe(att, r, line)
         /\ IF line.kind = "garbage"
            THEN /\ task' = [task EXCEPT ![t] =
                               Throw([r EXCEPT !.rp = 0], "JSONDecodeError")]
                 /\ emitted' = ThrowLog(r)
            ELSE /\ task' = [task EXCEPT ![t] =
                               [r EXCEPT !.resp = line, !.rp = 0,
                                         !.pc = AfterRead(r.cop)]]
                 /\ emitted' = {}
         /\ running' = NextRun(task'[t], t)
    ELSE IF proc[p].eof
    THEN /\ task' = [task EXCEPT ![t] =
                       Throw([r EXCEPT !.rp = 0], "RuntimeError:closed")]
         /\ emitted' = ThrowLog(r)
         /\ running' = NextRun(task'[t], t)
         /\ UNCHANGED <<proc, att>>
    ELSE IF proc[p].waiter # 0
    THEN \* another coroutine is already waiting for incoming data
         /\ task' = [task EXCEPT ![t] =
                       Throw([r EXCEPT !.rp = 0], "RuntimeError:readuntil")]
         /\ emitted' = ThrowLog(r)
         /\ running' = NextRun(task'[t], t)
         /\ UNCHANGED <<proc, att>>
    ELSE /\ proc' = [proc EXCEPT ![p].waiter = t]
         /\ task' = [task EXCEPT ![t] = [r EXCEPT !.pc = "req_wait", !.rp = p]]
         /\ emitted' = {}
         /\ running' = 0
         /\ UNCHANGED att

\* MCPClient._send_request: response_line = await self.process.stdout.readline()
send_request_read(t) ==
    LET r == task[t]
        p == client[r.cl].process
    IN
    /\ Runnable(t) /\ r.pc = "req_read"
    /\ IF p = 0
       THEN /\ task' = [task EXCEPT ![t] = Throw(r, "AttributeError")]
            /\ running' = NextRun(task'[t], t)
            /\ emitted' = ThrowLog(r)
            /\ UNCHANGED <<proc, att>>
       ELSE ReadLine(t, p)
    /\ UNCHANGED <<mgr, counters, nprocs, client>>
    /\ UNCHANGED agent

\* the suspended readline() resumes after its stream was fed
send_request_resume(t) ==
    /\ Runnable(t) /\ task[t].pc = "req_wait"
    /\ ReadLine(t, task[t].rp)
    /\ UNCHANGED <<mgr, counters, nprocs, client>>
    /\ UNCHANGED agent

\* a start() that goes on to Ready without sending the notification
StartCheckNoNotify(t) ==
    LET r == task[t] IN
    /\ Runnable(t) /\ r.pc = "start_check"
    /\ task' = [task EXCEPT ![t] =
                  IF r.resp.kind = "error"
                  THEN Throw(r, "RuntimeError:init_failed")
                  ELSE [r EXCEPT !.pc = "start_done"]]
    /\ emitted' = IF r.resp.kind = "error" THEN ThrowLog(r) ELSE {}
    /\ running' = t
    /\ UNCHANGED <<mgr, counters, nprocs, client, att, proc>>
    /\ UNCHANGED agent

\* MCPClient.start after the reply to initialize: check it, send the
\* initialized notification, drain
start_check(t) ==
    LET r == task[t]
        p == client[r.cl].process
    IN
    /\ Runnable(t) /\ r.pc = "start_check"
    /\ IF r.resp.kind = "error"
       THEN /\ task' = [task EXCEPT ![t] = Throw(r, "RuntimeError:init_failed")]
            /\ running' = t
            /\ emitted' = ThrowLog(r)
            /\ UNCHANGED proc
       ELSE IF p = 0
       THEN /\ task' = [task EXCEPT ![t] = Throw(r, "AttributeError")]
            /\ running' = t
            /\ emitted' = ThrowLog(r)
            /\ UNCHANGED proc
       ELSE IF proc[p].alive
       THEN /\ proc' = [proc EXCEPT ![p].notified = TRUE,
                                    ![p].stdin = WriteLine(@, 0)]
            /\ task' = [task EXCEPT ![t] =
                          [r EXCEPT !.pc = "start_done",
                                    !.wlog = Append(@, [pid |-> p,
                                       method |-> "notifications/initialized",
                                       name |-> 0, id |-> 0])]]
            /\ running' \in {0, t}
            /\ emitted' = {}
       ELSE /\ task' = [task EXCEPT ![t] = Throw(r, "ConnectionResetError")]
            /\ running' = 0
            /\ emitted' = ThrowLog(r)
            /\ UNCHANGED proc
    /\ UNCHANGED <<mgr, counters, nprocs, client, att>>
    /\ UNCHANGED agent

\* MCPClient.start: self._initialized = True, and return; initialize_servers
\* goes on to client.list_tools()
start_done(t) ==
    LET r == task[t] IN
    /\ Runnable(t) /\ r.pc = "start_done"
    /\ client' = [client EXCEPT ![r.cl].initialized = TRUE]
    /\ task' = [task EXCEPT ![t] =
                  IF r.mop = "init"
                  THEN [r EXCEPT !.cop = "list_tools", !.pc = "lt_begin"]
                  ELSE Done(r, "return", "", NullLine, <<>>)]
    /\ running' = NextRun(task'[t], t)
    /\ emitted' = {<<"info", "initialized">>}
    /\ UNCHANGED <<mgr, counters, nprocs, proc, att>>
    /\ UNCHANGED agent


\* MCPClient.stop returns: inside start()'s handler the caught exception is
\* raised again; otherwise control goes back to the caller of stop()
StopReturn(r) ==
    IF r.hexc # ""
    THEN ThrowOut(r, r.hexc)
    ELSE IF r.mop = "shutdown"
         THEN [r EXCEPT !.cop = "none", !.pc = "sd_next", !.i = r.i + 1, !.rp = 0]
         ELSE Done([r EXCEPT !.rp = 0], "return", "", NullLine, <<>>)

StopReturnLog(r) == IF r.hexc # "" THEN ThrowOutLog(r) ELSE {}

\* a stop() whose exits do not all clear the handle
StopKeepsHandle(cls, c) == [cls EXCEPT ![c].initialized = FALSE]

\* a stop() that starts the request ids over
StopResetsIds(cls, c) ==
    [cls EXCEPT ![c].process = 0, ![c].initialized = FALSE, ![c].request_id = 0]

\* the finally block of MCPClient.stop
StopFinally(cls, c) ==
    [cls EXCEPT ![c].process = 0, ![c].initialized = FALSE]

\* a stop() that kills the subprocess without asking it to terminate first
StopKillsAtOnce(t) ==
    LET r == task[t]
        p == client[r.cl].process
    IN
    /\ Runnable(t) /\ r.pc = "stop_begin"
    /\ p # 0
    /\ proc' = [proc EXCEPT ![p].alive = FALSE, ![p].eof = TRUE,
                             ![p].sig = "kill", ![p].inbox = {},
                             ![p].waiter = 0]
    /\ task' = [task EXCEPT ![t] = [r EXCEPT !.pc = "stop_killwait", !.rp = p]]
    /\ running' = 0
    /\ emitted' = {<<"warning", "force_kill">>}
    /\ UNCHANGED <<mgr, counters, nprocs, att, client>>
    /\ UNCHANGED agent

\* a stop() without the test for the handle: terminate() is called on None
StopNoGuard(t) ==
    LET r == task[t] IN
    /\ Runnable(t) /\ r.pc = "stop_begin"
    /\ client' = StopFinally(client, r.cl)
    /\ task' = [task EXCEPT ![t] = ThrowOut(r, "AttributeError")]
    /\ running' = NextRun(task'[t], t)
    /\ emitted' = {<<"info", "stopping">>} \cup ThrowOutLog(r)
    /\ UNCHANGED <<mgr, counters, nprocs, att, proc>>
    /\ UNCHANGED agent

\* MCPClient.stop up to the await: nothing without a handle; otherwise
\* terminate() and wait for the exit, at most the grace interval.
\* terminate() on a subprocess that is gone may raise ProcessLookupError.
stop(t) ==
    LET r == task[t]
        p == client[r.cl].process
    IN
    /\ Runnable(t) /\ r.pc = "stop_begin"
    /\ IF p = 0
       THEN /\ task' = [task EXCEPT ![t] = StopReturn(r)]
            /\ running' = NextRun(task'[t], t)
            /\ emitted' = {}
            /\ UNCHANGED <<proc, client>>
       ELSE IF proc[p].alive
       THEN /\ proc' = [proc EXCEPT ![p].sig = "term"]
            /\ task' = [task EXCEPT ![t] = [r EXCEPT !.pc = "stop_wait", !.rp = p]]
            /\ running' = 0
            /\ emitted' = {<<"info", "stopping">>}
            /\ UNCHANGED client
       ELSE \E gone \in BOOLEAN :
              IF gone
              THEN /\ client' = StopFinally(client, r.cl)
                   /\ task' = [task EXCEPT ![t] = ThrowOut(r, "ProcessLookupError")]
                   /\ running' = NextRun(task'[t], t)
                   /\ emitted' = {<<"info", "stopping">>}
                                   \cup ThrowOutLog(r)
                   /\ UNCHANGED proc
              ELSE /\ task' = [task EXCEPT ![t] =
                                 [r EXCEPT !.pc = "stop_wait", !.rp = p]]
                   /\ running' = 0
                   /\ emitted' = {<<"info", "stopping">>}
                   /\ UNCHANGED <<proc, client>>
    /\ UNCHANGED <<mgr, counters, nprocs, att>>
    /\ UNCHANGED agent

\* a stop() that waits for the exit without a bound
StopWaitNoTimeout(t) ==
    LET r == task[t] IN
    /\ Runnable(t) /\ r.pc = "stop_wait"
    /\ ~proc[r.rp].alive
    /\ client' = StopFinally(client, r.cl)
    /\ task' = [task EXCEPT ![t] = StopReturn(r)]
    /\ running' = NextRun(task'[t], t)
    /\ emitted' = StopReturnLog(r)
    /\ UNCHANGED <<mgr, counters, nprocs, att, proc>>
    /\ UNCHANGED agent

\* MCPClient.stop after wait_for: the subprocess exited in time, or the
\* grace interval expired and it is killed
stop_wait(t) ==
    LET r == task[t]
        q == client[r.cl].process
    IN
    /\ Runnable(t) /\ r.pc = "stop_wait"
    /\ IF ~proc[r.rp].alive
       THEN /\ client' = StopFinally(client, r.cl)
            /\ task' = [task EXCEPT ![t] = StopReturn(r)]
            /\ running' = NextRun(task'[t], t)
            /\ emitted' = StopReturnLog(r)
            /\ UNCHANGED proc
       ELSE IF q = 0
       THEN /\ client' = StopFinally(client, r.cl)
            /\ task' = [task EXCEPT ![t] = ThrowOut(r, "AttributeError")]
            /\ running' = NextRun(task'[t], t)
            /\ emitted' = {<<"warning", "force_kill">>}
                            \cup ThrowOutLog(r)
            /\ UNCHANGED proc
       ELSE IF ~proc[q].alive
       THEN \* the handle was replaced meanwhile and its subprocess is gone:
            \* kill() raises, or does nothing and wait() returns at once
            /\ client' = StopFinally(client, r.cl)
            /\ \E gone \in BOOLEAN :
                 IF gone
                 THEN /\ task' = [task EXCEPT ![t] =
                                    ThrowOut(r, "ProcessLookupError")]
                      /\ emitted' = {<<"warning", "force_kill">>}
                                      \cup ThrowOutLog(r)
                 ELSE /\ task' = [task EXCEPT ![t] = StopReturn(r)]
                      /\ emitted' = {<<"warning", "force_kill">>}
                                      \cup StopReturnLog(r)
            /\ running' = NextRun(task'[t], t)
            /\ UNCHANGED proc
       ELSE /\ proc' = [proc EXCEPT ![q].alive = FALSE, ![q].eof = TRUE,
                                    ![q].sig = "kill", ![q].inbox = {},
                                    ![q].waiter = 0]
            /\ task' = [task EXCEPT ![t] = [r EXCEPT !.pc = "stop_killwait",
                                                   !.rp = q]]
            /\ running' = 0
            /\ emitted' = {<<"warning", "force_kill">>}
            /\ UNCHANGED client
    /\ UNCHANGED <<mgr, counters, nprocs, att>>
    /\ UNCHANGED agent

\* MCPClient.stop after the kill: the exit is awaited, then the finally block
stop_killed(t) ==
    LET r == task[t] IN
    /\ Runnable(t) /\ r.pc = "stop_killwait"
    /\ ~proc[r.rp].alive
    /\ client' = StopFinally(client, r.cl)
    /\ task' = [task EXCEPT ![t] = StopReturn(r)]
    /\ running' = NextRun(task'[t], t)
    /\ emitted' = StopReturnLog(r)
    /\ UNCHANGED <<mgr, counters, nprocs, proc, att>>
    /\ UNCHANGED agent

\* MCPClient.list_tools up to _send_request
list_tools(t) ==
    LET r == task[t] IN
    /\ Runnable(t) /\ r.pc = "lt_begin"
    /\ IF ~client[r.cl].initialized
       THEN /\ task' = [task EXCEPT ![t] = Throw(r, "RuntimeError:not_initialized")]
            /\ emitted' = ThrowLog(r)
       ELSE /\ task' = [task EXCEPT ![t] = [r EXCEPT !.pc = "req_begin",
                                                   !.method = "tools/list"]]
            /\ emitted' = {}
    /\ running' = NextRun(task'[t], t)
    /\ UNCHANGED <<mgr, counters, nprocs, proc, client, att>>
    /\ UNCHANGED agent

\* the entries of a tools/list result, each tagged with a server name
Tagged(tools, s) == [j \in 1..Len(tools) |-> [name |-> tools[j], server |-> s]]

\* MCPClient.list_tools after _send_request, and what its caller does with
\* the tools: initialize_servers registers them, list_all_tools tags them
list_tools_check(t) ==
    LET r == task[t] IN
    /\ Runnable(t) /\ r.pc = "lt_check"
    /\ IF r.resp.kind = "error"
       THEN /\ task' = [task EXCEPT ![t] = Throw(r, "RuntimeError:tools_list_failed")]
            /\ emitted' = ThrowLog(r)
       ELSE /\ task' = [task EXCEPT ![t] =
                 CASE r.mop = "init" ->
                        [r EXCEPT !.cop = "none", !.pc = "init_register",
                                  !.todo = r.resp.tools]
                   [] r.mop = "list" ->
                        [r EXCEPT !.cop = "none", !.pc = "la_next", !.i = r.i + 1,
                                  !.acc = @ \o Tagged(r.resp.tools, clients[r.i].name)]
                   [] OTHER ->
                        Done(r, "return", "", NullLine, Tagged(r.resp.tools, 0))]
            /\ emitted' = {}
    /\ running' = NextRun(task'[t], t)
    /\ UNCHANGED <<mgr, counters, nprocs, proc, client, att>>
    /\ UNCHANGED agent

\* MCPClient.call_tool up to _send_request
call_tool(t) ==
    LET r == task[t] IN
    /\ Runnable(t) /\ r.pc = "ct_begin"
    /\ IF ~client[r.cl].initialized
       THEN /\ task' = [task EXCEPT ![t] = Throw(r, "RuntimeError:not_initialized")]
            /\ emitted' = ThrowLog(r)
       ELSE /\ task' = [task EXCEPT ![t] = [r EXCEPT !.pc = "req_begin",
                                                   !.method = "tools/call"]]
            /\ emitted' = {<<"info", "calling">>}
    /\ running' = NextRun(task'[t], t)
    /\ UNCHANGED <<mgr, counters, nprocs, proc, client, att>>
    /\ UNCHANGED agent

\* a call_tool that gives the connection up when the server reports an error
CallToolCheckCloses(t) ==
    LET r == task[t] IN
    /\ Runnable(t) /\ r.pc = "ct_check"
    /\ IF r.resp.kind = "error"
       THEN /\ task' = [task EXCEPT ![t] = Throw(r, "RuntimeError:tool_failed")]
            /\ emitted' = {<<"error", "tool_failed">>}
            /\ client' = [client EXCEPT ![r.cl].initialized = FALSE]
       ELSE /\ task' = [task EXCEPT ![t] = Done(r, "return", "", r.resp, <<>>)]
            /\ emitted' = {}
            /\ UNCHANGED client
    /\ running' = 0
    /\ UNCHANGED <<mgr, counters, nprocs, proc, att>>
    /\ UNCHANGED agent

\* a call_tool after whose error reply the tool is forgotten
CallToolCheckUnregisters(t) ==
    LET r == task[t] IN
    /\ Runnable(t) /\ r.pc = "ct_check"
    /\ IF r.resp.kind = "error"
       THEN /\ task' = [task EXCEPT ![t] = Throw(r, "RuntimeError:tool_failed")]
            /\ emitted' = {<<"error", "tool_failed">>}
            /\ tool_registry' = [tool_registry EXCEPT ![r.name] = 0]
       ELSE /\ task' = [task EXCEPT ![t] = Done(r, "return", "", r.resp, <<>>)]
            /\ emitted' = {}
            /\ UNCHANGED tool_registry
    /\ running' = 0
    /\ UNCHANGED <<config, clients, counters, nprocs, proc, client, att>>
    /\ UNCHANGED agent

\* MCPClient.call_tool after _send_request
call_tool_check(t) ==
    LET r == task[t] IN
    /\ Runnable(t) /\ r.pc = "ct_check"
    /\ IF r.resp.kind = "error"
       THEN /\ task' = [task EXCEPT ![t] = Throw(r, "RuntimeError:tool_failed")]
            /\ emitted' = {<<"error", "tool_failed">>}
       ELSE /\ task' = [task EXCEPT ![t] = Done(r, "return", "", r.resp, <<>>)]
            /\ emitted' = {}
    /\ running' = 0
    /\ UNCHANGED <<mgr, counters, nprocs, proc, client, att>>
    /\ UNCHANGED agent


\* --------------------------------------------------------- MCPToolManager
\* a final check that wants every configured server connected
NotAllConnected(cls) == Len(cls) < Len(config)

\* the check that ends initialize_servers
NoneConnected(cls) == cls = <<>>

\* MCPToolManager.initialize_servers: the head of the loop over the
\* configuration, up to client.start(); after the loop, the final check
initialize_servers(t) ==
    LET r == task[t]
        held == Connected(clients)
        heap == CollectClients(client, held)
    IN
    /\ Runnable(t) /\ r.pc = "init_next"
    /\ proc' = CollectProcs(proc, client, held)
    /\ IF r.i > Len(config)
       THEN /\ task' = [task EXCEPT ![t] =
                 IF NoneConnected(clients)
                 THEN Done(r, "raise", "RuntimeError:no_servers", NullLine, <<>>)
                 ELSE Done(r, "return", "", NullLine, <<>>)]
            /\ running' = 0
            /\ emitted' = IF NoneConnected(clients) THEN {}
                          ELSE {<<"info", "servers_initialized">>}
            /\ client' = heap
            /\ UNCHANGED nclients
       ELSE IF ~config[r.i]
       THEN \* server_config["command"] or ["args"] raises KeyError
            /\ task' = [task EXCEPT ![t] = ThrowOut(r, "KeyError")]
            /\ running' = t
            /\ emitted' = ThrowOutLog(r)
            /\ client' = heap
            /\ UNCHANGED nclients
       ELSE /\ nclients < MaxInit * NumServers
            /\ nclients' = nclients + 1
            /\ client' = [heap EXCEPT ![nclients + 1] = NewClient(r.i)]
            /\ task' = [task EXCEPT ![t] =
                          [r EXCEPT !.cop = "start", !.pc = "start_launch",
                                    !.cl = nclients + 1]]
            /\ running' = t
            /\ emitted' = {}
    /\ UNCHANGED <<mgr, nops, ninit, fresh, nprocs, att>>
    /\ UNCHANGED agent

\* MCPToolManager.initialize_servers: one round of the loop over the
\* discovered tools, and self.clients[server_name] = client after it
register_tools(t) ==
    LET r == task[t] IN
    /\ Runnable(t) /\ r.pc = "init_register"
    /\ IF r.todo = <<>>
       THEN /\ clients' = DictSet(clients, r.i, r.cl)
            /\ task' = [task EXCEPT ![t] = [r EXCEPT !.pc = "init_next",
                                                   !.i = r.i + 1]]
            /\ emitted' = {}
            /\ UNCHANGED tool_registry
       ELSE IF Head(r.todo) = NoName
       THEN \* tool["name"] raises KeyError
            /\ task' = [task EXCEPT ![t] = ThrowOut(r, "KeyError")]
            /\ emitted' = ThrowOutLog(r)
            /\ UNCHANGED <<clients, tool_registry>>
       ELSE /\ tool_registry' = Register(tool_registry, Head(r.todo), r.i)
            /\ task' = [task EXCEPT ![t] = [r EXCEPT !.todo = Tail(@)]]
            /\ emitted' = {<<"info", "registered">>}
            /\ UNCHANGED clients
    /\ running' = t
    /\ UNCHANGED <<config, counters, nprocs, proc, client, att>>
    /\ UNCHANGED agent

\* MCPToolManager.list_all_tools: the head of the loop over self.clients
list_all_tools(t) ==
    LET r == task[t] IN
    /\ Runnable(t) /\ r.pc = "la_next"
    /\ task' = [task EXCEPT ![t] =
                  IF r.i > Len(clients)
                  THEN Done(r, "return", "", NullLine, r.acc)
                  ELSE [r EXCEPT !.cop = "list_tools", !.pc = "lt_begin",
                                 !.cl = clients[r.i].client]]
    /\ running' = NextRun(task'[t], t)
    /\ emitted' = {}
    /\ UNCHANGED <<mgr, counters, nprocs, proc, client, att>>
    /\ UNCHANGED agent

\* MCPToolManager.shutdown: the head of the loop over self.clients; after
\* the loop both dicts are cleared
shutdown(t) ==
    LET r == task[t] IN
    /\ Runnable(t) /\ r.pc = "sd_next"
    /\ IF r.i > Len(clients)
       THEN /\ clients' = <<>>
            /\ tool_registry' = [n \in Tools |-> 0]
            /\ task' = [task EXCEPT ![t] = Done(r, "return", "", NullLine, r.acc)]
            /\ running' = 0
       ELSE /\ task' = [task EXCEPT ![t] =
                          [r EXCEPT !.cop = "stop", !.pc = "stop_begin",
                                    !.cl = clients[r.i].client]]
            /\ running' = t
            /\ UNCHANGED <<clients, tool_registry>>
    /\ emitted' = {}
    /\ UNCHANGED <<config, counters, nprocs, proc, client, att>>
    /\ UNCHANGED agent

\* ------------------------------------------------- the caller of the manager
CanBegin(t) ==
    /\ running = 0
    /\ task[t].pc \in {"idle", "done"}
    /\ nops < MaxOps

\* an operation of the manager begins; what the previous one left
\* unreachable is gone
BeginOp(t) ==
    /\ CanBegin(t)
    /\ nops' = nops + 1
    /\ client' = CollectClients(client, Connected(clients))
    /\ proc' = CollectProcs(proc, client, Connected(clients))

\* await manager.initialize_servers()
CallInitialize(t) ==
    /\ BeginOp(t)
    /\ ninit < MaxInit
    /\ task' = [task EXCEPT ![t] = [IdleTask EXCEPT !.mop = "init",
                                       !.pc = "init_next", !.i = 1]]
    /\ running' = t
    /\ ninit' = ninit + 1
    /\ att' = [s \in Servers |-> NoAttempt]
    /\ fresh' = (clients = <<>> /\ \A n \in Tools : tool_registry[n] = 0)
    /\ emitted' = {<<"info", "initializing">>}
    /\ UNCHANGED <<mgr, nclients, nprocs>>
    /\ UNCHANGED agent

\* await manager.list_all_tools()
CallListAllTools(t) ==
    /\ BeginOp(t)
    /\ task' = [task EXCEPT ![t] = [IdleTask EXCEPT !.mop = "list",
                                       !.pc = "la_next", !.i = 1]]
    /\ running' = t
    /\ emitted' = {}
    /\ att' = [s0 \in Servers |-> NoAttempt]
    /\ fresh' = TRUE
    /\ UNCHANGED <<mgr, nclients, ninit, nprocs>>
    /\ UNCHANGED agent

\* await manager.call_tool(n, arguments): MCPToolManager.call_tool up to
\* client.call_tool; prev records the exception with which this caller's
\* call before, if it was a call of the same tool, ended
CallTool(t, n) ==
    LET s == Resolve(tool_registry, n)
        b == [IdleTask EXCEPT !.mop = "call", !.name = n,
                              !.prev = IF task[t].mop = "call" /\ task[t].name = n
                                       THEN task[t].res.exc ELSE ""]
    IN
    /\ BeginOp(t)
    /\ task' = [task EXCEPT ![t] =
                  IF s = 0
                  THEN Done(b, "raise", "ValueError:unknown_tool", NullLine, <<>>)
                  ELSE IF ~DictHas(clients, s)
                  THEN Done(b, "raise", "RuntimeError:not_connected", NullLine, <<>>)
                  ELSE [b EXCEPT !.cop = "call_tool", !.pc = "ct_begin",
                                 !.cl = DictGet(clients, s)]]
    /\ running' = NextRun(task'[t], t)
    /\ emitted' = {}
    /\ att' = [s0 \in Servers |-> NoAttempt]
    /\ fresh' = TRUE
    /\ UNCHANGED <<mgr, nclients, ninit, nprocs>>
    /\ UNCHANGED agent

\* await manager.shutdown(); again records that the call before it was a
\* shutdown() too
CallShutdown(t) ==
    /\ BeginOp(t)
    /\ task' = [task EXCEPT ![t] =
                  [IdleTask EXCEPT !.mop = "shutdown", !.pc = "sd_next", !.i = 1,
                                   !.again = (task[t].mop = "shutdown")]]
    /\ running' = t
    /\ emitted' = {<<"info", "shutting_down">>}
    /\ att' = [s0 \in Servers |-> NoAttempt]
    /\ fresh' = TRUE
    /\ UNCHANGED <<mgr, nclients, ninit, nprocs>>
    /\ UNCHANGED agent

\* ------------------------------------------------------------ subprocesses
\* the lines a server may write in reply to a request
Replies(p, req) ==
    {[kind |-> k, id |-> req.id, tools |-> l, src |-> p] :
        k \in Kinds,
        l \in IF req.method = "tools/list" THEN ToolLists ELSE {<<>>}}

\* subprocess p writes one line answering one of the requests it has read;
\* the reader suspended on its output is woken
ServerRespond(p) ==
    /\ running = 0
    /\ proc[p].alive
    /\ \E req \in proc[p].inbox :
         \E line \in Replies(p, req) :
           /\ line.kind = "result" \/ line.tools = <<>>
           /\ proc' = [proc EXCEPT ![p].buf = Append(@, line),
                                   ![p].inbox = @ \ {req},
                                   ![p].waiter = 0]
    /\ emitted' = {}
    /\ UNCHANGED <<mgr, counters, nprocs, client, task, running, att>>
    /\ UNCHANGED agent

\* subprocess p exits: its output reaches end of file, readers are woken
ProcExit(p) ==
    /\ running = 0
    /\ proc[p].alive
    /\ proc' = [proc EXCEPT ![p].alive = FALSE, ![p].eof = TRUE,
                            ![p].inbox = {}, ![p].waiter = 0]
    /\ emitted' = {}
    /\ UNCHANGED <<mgr, counters, nprocs, client, task, running, att>>
    /\ UNCHANGED agent

\* ------------------------------------------------------------ the manager
\* One caller, task 1, uses a manager as the tests do: one operation after
\* the other.
Init ==
    /\ config \in UNION {[1..n -> BOOLEAN] : n \in 0..NumServers}
    /\ clients = <<>>
    /\ tool_registry = [n \in Tools |-> 0]
    /\ client = [c \in ClientIds |-> NewClient(0)]
    /\ nclients = 0
    /\ proc = [p \in Pids |-> NewProc]
    /\ nprocs = 0
    /\ task = [t \in TaskIds |-> IdleTask]
    /\ running = 0
    /\ emitted = {}
    /\ att = [s \in Servers |-> NoAttempt]
    /\ fresh = TRUE
    /\ nops = 0
    /\ ninit = 0
    /\ agent = NoAgent

Next ==
    \/ CallInitialize(1)
    \/ CallListAllTools(1)
    \/ \E n \in Tools : CallTool(1, n)
    \/ CallShutdown(1)
    \/ initialize_servers(1)
    \/ register_tools(1)
    \/ list_all_tools(1)
    \/ shutdown(1)
    \/ start_launch(1)
    \/ send_request(1)
    \/ send_request_read(1)
    \/ send_request_resume(1)
    \/ start_check(1)
    \/ start_done(1)
    \/ stop(1)
    \/ stop_wait(1)
    \/ stop_killed(1)
    \/ list_tools(1)
    \/ list_tools_check(1)
    \/ call_tool(1)
    \/ call_tool_check(1)
    \/ \E p \in Pids : ServerRespond(p)
    \/ \E p \in Pids : ProcExit(p)

Spec == Init /\ [][Next]_vars

\* a step of coroutine t inside an operation of the manager
TaskStep(t) ==
    \/ initialize_servers(t)
    \/ register_tools(t)
    \/ list_all_tools(t)
    \/ shutdown(t)
    \/ start_launch(t)
    \/ send_request(t)
    \/ send_request_read(t)
    \/ send_request_resume(t)
    \/ start_check(t)
    \/ start_done(t)
    \/ stop(t)
    \/ stop_wait(t)
    \/ stop_killed(t)
    \/ list_tools(t)
    \/ list_tools_check(t)
    \/ call_tool(t)
    \/ call_tool_check(t)

\* The event loop runs every coroutine that is ready to run, and the timer of
\* wait_for fires; nothing makes a subprocess write a line or exit, and
\* nothing makes the caller call again.
FairSpec == Spec /\ WF_vars(TaskStep(1))


\* ------------------------------------------------- calls on one connection
\* a subprocess after the handshake and one discovery
ReadyProc ==
    [NewProc EXCEPT !.alive = TRUE, !.notified = TRUE,
                    !.stdin = WriteLine(WriteLine(WriteLine(<<>>, 1), 0), 2)]


\* A manager after initialize_servers connected its one server, which
\* exposes tool 1: the handshake and the discovery took request ids 1 and 2.
\* Several callers, one task each, call tools at the same time.
InitCalls ==
    /\ config = <<TRUE>>
    /\ clients = <<[name |-> 1, client |-> 1]>>
    /\ tool_registry = [n \in Tools |-> IF n = 1 THEN 1 ELSE 0]
    /\ client = [c \in ClientIds |->
                   IF c = 1
                   THEN [server |-> 1, process |-> 1, initialized |-> TRUE,
                         request_id |-> 2]
                   ELSE NewClient(0)]
    /\ nclients = 1
    /\ proc = [p \in Pids |->
                 IF p = 1
                 THEN ReadyProc
                 ELSE NewProc]
    /\ nprocs = 1
    /\ task = [t \in TaskIds |-> IdleTask]
    /\ running = 0
    /\ emitted = {}
    /\ att = [s \in Servers |-> NoAttempt]
    /\ fresh = TRUE
    /\ nops = 0
    /\ ninit = 1
    /\ agent = NoAgent

NextCalls ==
    \/ \E t \in TaskIds : \E n \in Tools : CallTool(t, n)
    \/ \E t \in TaskIds : call_tool(t)
    \/ \E t \in TaskIds : send_request(t)
    \/ \E t \in TaskIds : send_request_read(t)
    \/ \E t \in TaskIds : send_request_resume(t)
    \/ \E t \in TaskIds : call_tool_check(t)
    \/ \E p \in Pids : ServerRespond(p)
    \/ \E p \in Pids : ProcExit(p)

SpecCalls == InitCalls /\ [][NextCalls]_vars

\* ------------------------------------------- a caller that stops waiting
\* The caller bounds its call from outside (asyncio.wait_for around
\* manager.call_tool): when its patience ends, the coroutine suspended in
\* readline() is cancelled, the stream forgets its waiter, and the caller
\* gets TimeoutError.  Nothing in _send_request reacts to the cancellation.
GiveUp(t) ==
    LET r == task[t] IN
    /\ running = 0
    /\ r.mop = "call" /\ r.pc = "req_wait"
    /\ proc' = [proc EXCEPT ![r.rp].waiter = IF @ = t THEN 0 ELSE @]
    /\ task' = [task EXCEPT ![t] = Done(r, "raise", "TimeoutError", NullLine, <<>>)]
    /\ emitted' = {}
    /\ UNCHANGED <<mgr, counters, nprocs, client, running, att>>
    /\ UNCHANGED agent

\* One caller calls tools on the Ready connection, one call after the other,
\* and may stop waiting for a response.
NextTimeout ==
    \/ \E n \in Tools : CallTool(1, n)
    \/ call_tool(1)
    \/ send_request(1)
    \/ send_request_read(1)
    \/ send_request_resume(1)
    \/ call_tool_check(1)
    \/ GiveUp(1)
    \/ \E p \in Pids : ServerRespond(p)
    \/ \E p \in Pids : ProcExit(p)

SpecTimeout == InitCalls /\ [][NextTimeout]_vars

\* ------------------------------------------------- one MCPClient, used directly
\* One MCPClient object, client 1, as test_mcp_client_initialization uses it;
\* here several callers call its methods in any order and at the same time.
InitClient ==
    /\ config = <<TRUE>>
    /\ clients = <<>>
    /\ tool_registry = [n \in Tools |-> 0]
    /\ client = [c \in ClientIds |-> IF c = 1 THEN NewClient(1) ELSE NewClient(0)]
    /\ nclients = 1
    /\ proc = [p \in Pids |-> NewProc]
    /\ nprocs = 0
    /\ task = [t \in TaskIds |-> IdleTask]
    /\ running = 0
    /\ emitted = {}
    /\ att = [s \in Servers |-> NoAttempt]
    /\ fresh = TRUE
    /\ nops = 0
    /\ ninit = 0
    /\ agent = NoAgent

\* a caller awaits a method of client 1; again records that this caller's
\* call before was the same method
ClientCall(t, mop, cop, pc) ==
    /\ CanBegin(t)
    /\ nops' = nops + 1
    /\ task' = [task EXCEPT ![t] =
                  [IdleTask EXCEPT !.mop = mop, !.cop = cop, !.pc = pc, !.cl = 1,
                                   !.name = IF cop = "call_tool" THEN 1 ELSE 0,
                                   !.again = (task[t].mop = mop)]]
    /\ running' = t
    /\ emitted' = {}
    /\ UNCHANGED <<mgr, nclients, ninit, fresh, nprocs, proc, client, att>>
    /\ UNCHANGED agent

\* await client.start()
ClientStart(t) == ClientCall(t, "c_start", "start", "start_launch")

\* await client.stop()
ClientStop(t) == ClientCall(t, "c_stop", "stop", "stop_begin")

\* await client.list_tools()
ClientListTools(t) == ClientCall(t, "c_list", "list_tools", "lt_begin")

\* await client.call_tool(name, arguments)
ClientCallTool(t) == ClientCall(t, "c_call", "call_tool", "ct_begin")

NextClient ==
    \/ \E t \in TaskIds : ClientStart(t)
    \/ \E t \in TaskIds : ClientStop(t)
    \/ \E t \in TaskIds : ClientListTools(t)
    \/ \E t \in TaskIds : ClientCallTool(t)
    \/ \E t \in TaskIds : start_launch(t)
    \/ \E t \in TaskIds : send_request(t)
    \/ \E t \in TaskIds : send_request_read(t)
    \/ \E t \in TaskIds : send_request_resume(t)
    \/ \E t \in TaskIds : start_check(t)
    \/ \E t \in TaskIds : start_done(t)
    \/ \E t \in TaskIds : stop(t)
    \/ \E t \in TaskIds : stop_wait(t)
    \/ \E t \in TaskIds : stop_killed(t)
    \/ \E t \in TaskIds : list_tools(t)
    \/ \E t \in TaskIds : list_tools_check(t)
    \/ \E t \in TaskIds : call_tool(t)
    \/ \E t \in TaskIds : call_tool_check(t)
    \/ \E p \in Pids : ServerRespond(p)
    \/ \E p \in Pids : ProcExit(p)

SpecClient == InitClient /\ [][NextClient]_vars

\* ------------------------------------------------------------------ Agent
\* Agent.step on a state graph.  A graph gives every state its is_terminal
\* flag and the names get_transitions returns for it; get_state(name) is the
\* state of that name.
MAX_ITER == 10

NumStates == 3

AgentStates == 1..NumStates

\* the state named "agent_reply"
AgentReply == 1

\* a loop that gives up one iteration later
LimitLate(n) == n > MAX_ITER + 1

\* if retry_count > MAX_ITER
LimitReached(n) == n > MAX_ITER

\* an Agent on some graph, in some state, before step() is called
InitAgent ==
    /\ config = <<>>
    /\ clients = <<>>
    /\ tool_registry = [n \in Tools |-> 0]
    /\ client = [c \in ClientIds |-> NewClient(0)]
    /\ nclients = 0
    /\ proc = [p \in Pids |-> NewProc]
    /\ nprocs = 0
    /\ task = [t \in TaskIds |-> IdleTask]
    /\ running = 0
    /\ emitted = {}
    /\ att = [s \in Servers |-> NoAttempt]
    /\ fresh = TRUE
    /\ nops = 0
    /\ ninit = 0
    /\ \E cur \in AgentStates, term \in [AgentStates -> BOOLEAN],
          tt \in [AgentStates -> SUBSET AgentStates] :
         agent = [pc |-> "idle", current_state |-> cur, is_terminal |-> term,
                  transitions |-> tt, retry_count |-> 0, runs |-> 0,
                  ready |-> FALSE, printed |-> ""]

\* the end of step(): current_state = get_state("agent_reply"), return
StepReturns(a, msg) ==
    [a EXCEPT !.pc = "returned", !.current_state = AgentReply, !.printed = msg]

\* Agent.step up to the loop
AgentStep ==
    /\ agent.pc = "idle"
    /\ agent' = [agent EXCEPT !.pc = "loop", !.retry_count = 0]
    /\ UNCHANGED <<mgr, counters, nprocs, proc, client, task, running,
                   emitted, att>>

\* Agent.step: the test of the while loop and one pass through its body.
\* run() may change the state's is_terminal flag; check_transition_ready
\* answers either way; with one transition name that state is next, otherwise
\* choose_transition names one of them or raises.
AgentLoop ==
    LET a == agent
        cur == a.current_state
    IN
    /\ a.pc = "loop"
    /\ IF a.is_terminal[cur]
       THEN agent' = StepReturns(a, "")
       ELSE IF LimitReached(a.retry_count)
       THEN agent' = StepReturns(a, "MAX ITER REACHED")
       ELSE \E term \in BOOLEAN, ready \in BOOLEAN :
              LET b == [a EXCEPT !.retry_count = @ + 1, !.runs = @ + 1,
                                 !.is_terminal[cur] = term]
                  names == a.transitions[cur]
              IN
              IF term
              THEN agent' = StepReturns(b, "REACHED TERMINAL")
              ELSE IF ~ready
              THEN agent' = StepReturns(b, "REACHED NO NEXT STATE")
              ELSE IF Cardinality(names) = 1
              THEN agent' = [b EXCEPT !.ready = TRUE, !.printed = "",
                               !.current_state = CHOOSE n \in names : TRUE]
              ELSE \/ \E n \in names :
                        agent' = [b EXCEPT !.ready = TRUE, !.printed = "",
                                           !.current_state = n]
                   \/ agent' = [b EXCEPT !.ready = TRUE, !.printed = "",
                                         !.pc = "raised"]
    /\ UNCHANGED <<mgr, counters, nprocs, proc, client, task, running,
                   emitted, att>>

NextAgent ==
    \/ AgentStep
    \/ AgentLoop

SpecAgent == InitAgent /\ [][NextAgent]_vars

\* every state's run() returns, so the loop goes on
FairAgent == SpecAgent /\ WF_vars(AgentLoop)

\* ================================================================ claims
Configured == 1..Len(config)

Registered == {n \in Tools : tool_registry[n] # 0}

\* initialize_servers has returned or raised, and nothing was called since
InitDone == task[1].mop = "init" /\ task[1].pc = "done"

Healthy(s) == s \in Configured /\ config[s] /\ att[s].st = "healthy"

NoLaunch(s) == s \in Configured /\ config[s] /\ att[s].st = "nolaunch"

HealthySet == {s \in Servers : Healthy(s)}

Max(S) == CHOOSE x \in S : \A y \in S : y <= x

\* the state the calls on one connection start from, reached by the manager
ReadyConnection ==
    /\ InitDone
    /\ config = <<TRUE>>
    /\ clients = <<[name |-> 1, client |-> 1]>>
    /\ tool_registry = [n \in Tools |-> IF n = 1 THEN 1 ELSE 0]
    /\ client[1] = [server |-> 1, process |-> 1, initialized |-> TRUE,
                    request_id |-> 2]
    /\ proc[1] = ReadyProc
    /\ nclients = 1 /\ nprocs = 1 /\ ninit = 1

\* C1: every caller of call_tool that returns a response returns the one
\* whose id is the id of its own request.
C1_OwnResponse ==
    \A t \in TaskIds :
      (task[t].mop = "call" /\ task[t].pc = "done" /\ task[t].res.kind = "return")
        => task[t].res.line.id = task[t].wlog[1].id

C3_Isolation ==
    InitDone =>
      \A s \in Configured :
        /\ config[s] => att[s].st # "none"
        /\ Healthy(s) =>
             /\ DictHas(clients, s)
             /\ client[DictGet(clients, s)].server = s
             /\ \A n \in att[s].tools : tool_registry[n] >= s

C3_Witness ==
    /\ InitDone
    /\ Len(config) = 2 /\ config[1]
    /\ att[1].st \in {"launched", "handshaken"}
    /\ Healthy(2) /\ DictHas(clients, 2)
    /\ att[2].tools # {}

\* C4: after initialize, every registry entry maps a tool name to a server
\* that is in the clients dict.
C4_RegistryOnlyConnected ==
    InitDone => \A n \in Registered : DictHas(clients, tool_registry[n])

CallDone == task[1].mop = "call" /\ task[1].pc = "done"

\* C6: for every tool name n the registry maps to a server s, call_tool(n)
\* writes exactly one tools/call request, to the subprocess of s, and what
\* it returns is a line written by that subprocess.
C6_Routing ==
    (CallDone /\ tool_registry[task[1].name] # 0) =>
      LET s == tool_registry[task[1].name]
          wl == task[1].wlog
      IN /\ Len(wl) = 1
         /\ wl[1].method = "tools/call"
         /\ wl[1].name = task[1].name
         /\ DictHas(clients, s)
         /\ wl[1].pid = client[DictGet(clients, s)].process
         /\ task[1].res.kind = "return" => task[1].res.line.src = wl[1].pid

\* a step that begins MCPToolManager.call_tool
CallBegins == nops' = nops + 1 /\ task'[1].mop = "call"

\* the subprocesses whose handle a connected client holds
HeldProcs == {client[c].process : c \in Connected(clients)} \ {0}

\* C7: call_tool on a name the registry does not hold raises the
\* unknown-tool error at once and touches nothing: nothing is written or
\* read, and the dicts, the connected clients and the subprocesses stay as
\* they are; a call on a registered name never raises that error.
C7_UnknownToolNoIO ==
    /\ [][(CallBegins /\ tool_registry[task'[1].name] = 0) =>
            /\ task'[1].pc = "done"
            /\ task'[1].res.kind = "raise"
            /\ task'[1].res.exc = "ValueError:unknown_tool"
            /\ task'[1].wlog = <<>>
            /\ clients' = clients /\ tool_registry' = tool_registry
            /\ \A c \in Connected(clients) : client'[c] = client[c]
            /\ \A p \in HeldProcs : proc'[p] = proc[p]
            /\ \A p \in Pids : proc'[p].alive = proc[p].alive]_vars
    /\ [](CallDone /\ tool_registry[task[1].name] # 0
            => task[1].res.exc # "ValueError:unknown_tool")

C7_Witness ==
    /\ CallDone
    /\ task[1].res.exc = "ValueError:unknown_tool"
    /\ \E p \in HeldProcs : proc[p].alive

\* a step of initialize_servers that registers one tool
RegStep ==
    /\ task[1].pc = "init_register"
    /\ task[1].todo # <<>>
    /\ Head(task[1].todo) # NoName
    /\ task'[1] # task[1]

\* C8: a registration never fails and always makes its server the owner of
\* the name, whoever owned it before, leaving the other names alone; after
\* initialize a name that healthy servers expose resolves to none before the
\* last of them, and to the last of them when every server that launched was
\* healthy; every name has at most one owner.
C8_LastRegisteredWins ==
    /\ [][RegStep =>
            /\ task'[1].pc = "init_register"
            /\ tool_registry'[Head(task[1].todo)] = task[1].i
            /\ \A n \in Tools \ {Head(task[1].todo)} :
                 tool_registry'[n] = tool_registry[n]
            /\ clients' = clients]_vars
    /\ [](tool_registry \in [Tools -> 0..NumServers])
    /\ [](InitDone =>
            \A n \in Tools :
              LET S == {s \in HealthySet : n \in att[s].tools} IN
              S # {} =>
                /\ tool_registry[n] >= Max(S)
                /\ (\A s \in Configured : Healthy(s) \/ NoLaunch(s) \/ ~config[s])
                     => tool_registry[n] = Max(S))

C8_Witness ==
    /\ InitDone
    /\ Healthy(1) /\ Healthy(2)
    /\ 1 \in att[1].tools /\ 1 \in att[2].tools
    /\ DictKeys(clients) = {1, 2}
    /\ tool_registry[1] = 2

\* C9: a registration emits a collision warning exactly when it overwrites
\* an entry that another server owns.
C9_CollisionWarned ==
    [][RegStep =>
         (tool_registry[Head(task[1].todo)] \notin {0, task[1].i}
            <=> <<"warning", "collision">> \in emitted')]_vars

\* MCPToolManager.list_all_tools has returned
ListDone == task[1].mop = "list" /\ task[1].pc = "done"

\* C10: when every owner in the registry is connected, every entry
\* list_all_tools returns under a name the registry holds is tagged with the
\* server the registry resolves that name to (name collisions included).
C10_TagIsOwner ==
    (ListDone /\ \A n \in Registered : DictHas(clients, tool_registry[n])) =>
      \A j \in 1..Len(task[1].res.cat) :
        LET e == task[1].res.cat[j] IN
        (e.name # NoName /\ tool_registry[e.name] # 0)
          => tool_registry[e.name] = e.server

\* MCPToolManager.shutdown has returned or raised
ShutdownDone == task[1].mop = "shutdown" /\ task[1].pc = "done"

\* a step of a shutdown() called directly after a shutdown()
SecondShutdownStep ==
    /\ task[1].mop = "shutdown" /\ task[1].pc = "sd_next" /\ task[1].again

\* C11: a shutdown() directly after a shutdown() returns without an error,
\* leaves the dicts, the clients and the subprocesses as they were, and after
\* it no subprocess this manager launched is running.
C11_ShutdownIdempotent ==
    /\ [][SecondShutdownStep =>
            /\ task'[1].pc = "done" /\ task'[1].res.kind = "return"
            /\ clients' = clients /\ tool_registry' = tool_registry
            /\ client' = client /\ proc' = proc]_vars
    /\ []((ShutdownDone /\ task[1].again) =>
            /\ clients = <<>> /\ Registered = {}
            /\ \A p \in Pids : ~proc[p].alive)

\* the part of C11 that does not depend on subprocesses no client holds: the
\* second shutdown() returns and changes nothing
C11_SecondShutdownNoChange ==
    /\ [][SecondShutdownStep =>
            /\ task'[1].pc = "done" /\ task'[1].res.kind = "return"
            /\ clients' = clients /\ tool_registry' = tool_registry
            /\ client' = client /\ proc' = proc]_vars
    /\ []((ShutdownDone /\ task[1].again) =>
            /\ clients = <<>> /\ Registered = {}
            /\ \A c \in ClientIds : client[c].process = 0)

\* C12: shutdown() calls stop() on every connection of the clients dict in
\* turn, goes on to the next one whether stop() returned or raised, never
\* raises, and returns with both dicts empty and no client holding a handle.
C12_ShutdownClosesAll ==
    /\ [][(task[1].mop = "shutdown" /\ task[1].pc = "sd_next"
             /\ task[1].i <= Len(clients)) =>
            /\ task'[1].pc = "stop_begin" /\ task'[1].i = task[1].i
            /\ task'[1].cl = clients[task[1].i].client
            /\ clients' = clients]_vars
    /\ [][(task[1].mop = "shutdown" /\ task[1].cop = "stop"
             /\ task'[1] # task[1]) =>
            /\ task'[1].mop = "shutdown" /\ task'[1].pc # "done"
            /\ \/ task'[1].cop = "stop" /\ task'[1].i = task[1].i
               \/ task'[1].pc = "sd_next" /\ task'[1].i = task[1].i + 1
            /\ clients' = clients]_vars
    /\ [](ShutdownDone =>
            /\ task[1].res.kind = "return"
            /\ clients = <<>> /\ Registered = {}
            /\ \A c \in ClientIds : client[c].process = 0)

\* shutdown() returned after the stop() of the first connection raised and
\* the second connection's subprocess was told to terminate
C12_Witness ==
    /\ ShutdownDone
    /\ task[1].res.cat = <<1>>
    /\ proc[2].sig \in {"term", "kill"}
    /\ ~proc[2].alive

\* MCPClient.start is running
StartPending == task[1].cop = "start"

\* C13: every start() ends, by returning or by raising.
C13_StartTerminates == StartPending ~> ~StartPending

\* C14: a call the caller stopped waiting for leaves the connection Ready,
\* and every call that returns, also after such a call, returns the response
\* to its own request, whose id is the newest id of the connection.
C14_LateResponseDiscarded ==
    /\ (CallDone /\ task[1].res.exc = "TimeoutError") =>
          /\ client[1].initialized
          /\ client[1].process # 0
    /\ (CallDone /\ task[1].res.kind = "return") =>
          /\ task[1].res.line.id = task[1].wlog[1].id
          /\ task[1].res.line.id = client[1].request_id

\* MCPToolManager.call_tool is running
CallPending == task[1].mop = "call" /\ task[1].pc # "done"

\* C15: every call_tool ends: its caller is resumed with a result or with
\* an error.
C15_InvokeCompletes == CallPending ~> CallDone

\* the failures of call_tool the claim names: unknown tool, owner not
\* connected, error reported by the server, unparseable line, closed output
NamedCallFailures ==
    {"ValueError:unknown_tool", "RuntimeError:not_connected",
     "RuntimeError:tool_failed", "JSONDecodeError", "RuntimeError:closed"}

\* C16: every one of these failures reaches the caller of call_tool as an
\* exception of one class, the class of the not-connected failure.
C16_OneFailureType ==
    (CallDone /\ task[1].res.kind = "raise"
       /\ task[1].res.exc \in NamedCallFailures)
      => ExcType(task[1].res.exc) = ExcType("RuntimeError:not_connected")

\* initialize_servers is about to read an entry that lacks "command" or
\* "args"
InvalidEntryDetected ==
    /\ task[1].mop = "init" /\ task[1].pc = "init_next"
    /\ task[1].i <= Len(config)
    /\ ~config[task[1].i]

\* C17: when initialize_servers comes upon an invalid entry, it has launched
\* no subprocess yet, for any server.
C17_ValidatedBeforeLaunch ==
    InvalidEntryDetected =>
      \A s \in Servers : att[s].st \in {"none", "nolaunch"}

\* initialize_servers is running over a configuration whose second entry is
\* valid
InitPendingSecondValid ==
    /\ task[1].mop = "init" /\ task[1].pc # "done"
    /\ Len(config) = 2 /\ config[2]

\* C18: the startup of the second server begins whatever the first server
\* does, also when the first never answers its initialize request.
C18_StartupNotSerialized ==
    InitPendingSecondValid ~> att[2].st # "none"

\* MCPToolManager.shutdown is running
ShutdownPending == task[1].mop = "shutdown" /\ task[1].pc # "done"

\* C19: every shutdown() returns, whatever the subprocesses do; a
\* subprocess still running when the grace interval ends is killed, and
\* when shutdown() has returned no client holds a handle.
C19_ShutdownTerminates ==
    /\ ShutdownPending ~> ShutdownDone
    /\ [][(task[1].mop = "shutdown" /\ task[1].pc = "stop_wait"
             /\ proc[task[1].rp].alive /\ task'[1] # task[1]) =>
            /\ ~proc'[task[1].rp].alive
            /\ proc'[task[1].rp].sig = "kill"
            /\ task'[1].pc = "stop_killwait"]_vars
    /\ [](ShutdownDone => \A c \in ClientIds : client[c].process = 0)

\* shutdown() returned after it had to kill the first connection's
\* subprocess, and the second connection's subprocess was stopped too
C19_Witness ==
    /\ ShutdownDone
    /\ task[1].res.kind = "return"
    /\ proc[1].sig = "kill" /\ ~proc[1].alive
    /\ proc[2].sig \in {"term", "kill"} /\ ~proc[2].alive

\* the requests written to subprocess p by the step
Written(p) == proc'[p].inbox \ proc[p].inbox

HandshakeAccepted == task[1].cop = "start" /\ task[1].pc = "start_done"

\* C21: start() accepts the reply to initialize only when the line carries a
\* result and the id of the initialize request; after any other line it
\* does not go on to Ready.
C21_HandshakeRejectsMalformed ==
    HandshakeAccepted =>
      /\ task[1].resp.kind = "result"
      /\ task[1].resp.id = task[1].req_id

\* a step with which start() ends by raising
StartFails ==
    /\ task[1].cop = "start" /\ task[1].pc # "start_done"
    /\ task'[1].cop # "start"

\* C22: when start() raises, its client holds no handle and is not
\* initialized, and the subprocess this start() launched, if it launched
\* one, is not running.
C22_StartFailureReleases ==
    [][StartFails =>
         LET c == task[1].cl
             p == client[c].process
         IN /\ client'[c].process = 0
            /\ ~client'[c].initialized
            /\ att[task[1].i].st # "nolaunch" => p # 0
            /\ p # 0 => ~proc'[p].alive]_vars

\* start() raised during the handshake of a subprocess it had launched, and
\* the subprocess had to be killed
C22_Witness ==
    /\ task[1].mop = "init" /\ task[1].pc = "init_next" /\ task[1].i = 2
    /\ att[1].st = "launched"
    /\ <<"error", "server_failed">> \in emitted
    /\ client[1].process = 0 /\ ~client[1].initialized
    /\ proc[1].sig = "kill" /\ ~proc[1].alive

\* connection c is Ready: a handshake was completed on it, it holds its
\* subprocess, and no stop() is at work on it (Unstarted and Starting have
\* no completed handshake, Closed has no subprocess, Closing has a stop()
\* at work)
Ready(c) ==
    /\ client[c].initialized
    /\ client[c].process # 0
    /\ ~\E t \in TaskIds : task[t].cl = c /\ task[t].cop = "stop"

\* task t is at the entry of list_tools() or call_tool() and takes the step
AtEntry(t) ==
    /\ task[t].pc \in {"lt_begin", "ct_begin"}
    /\ task'[t] # task[t]

\* C23: list_tools() and call_tool() on a connection that is not Ready end
\* at once with the not-initialized error, and no tools/list or tools/call
\* request is written to the subprocess of a connection that is not Ready.
C23_RequiresReady ==
    /\ [][\A t \in TaskIds : (AtEntry(t) /\ ~Ready(task[t].cl)) =>
            /\ task'[t].pc = "done"
            /\ task'[t].res.exc = "RuntimeError:not_initialized"]_vars
    /\ [][\A t \in TaskIds :
            (/\ task[t].pc = "req_begin"
             /\ task[t].method \in {"tools/list", "tools/call"}
             /\ \E p \in Pids : Written(p) # {}
             /\ task'[t] # task[t])
            => Ready(task[t].cl)]_vars

\* a step in which list_tools() or call_tool() finds an error object in the
\* response it read
ServerErrorStep ==
    /\ task[1].pc \in {"lt_check", "ct_check"}
    /\ task[1].resp.kind = "error"
    /\ task'[1] # task[1]

\* C24: an error object in the response to tools/list or tools/call makes
\* the client's method raise and changes nothing else: the client, the
\* subprocesses and the dicts stay as they are; a call of the same tool
\* right after a call that ended so is not rejected but sent, and when it
\* returns, it returns the response to its own request.
C24_ServerErrorKeepsConnection ==
    /\ [][ServerErrorStep =>
            /\ task'[1].cop = "none"
            /\ task[1].pc = "ct_check" =>
                 /\ task'[1].pc = "done"
                 /\ task'[1].res.exc = "RuntimeError:tool_failed"
            /\ client' = client /\ proc' = proc
            /\ clients' = clients /\ tool_registry' = tool_registry]_vars
    /\ []((CallDone /\ task[1].prev = "RuntimeError:tool_failed") =>
            /\ task[1].res.exc \notin {"RuntimeError:not_initialized",
                                       "RuntimeError:not_connected",
                                       "ValueError:unknown_tool"}
            /\ task[1].wlog # <<>>
            /\ task[1].res.kind = "return" =>
                 /\ task[1].res.line.id = task[1].wlog[1].id
                 /\ task[1].res.line.src = task[1].wlog[1].pid)

\* a call returned a result right after a call of the same tool had ended
\* with the server's error
C24_Witness ==
    /\ CallDone
    /\ task[1].prev = "RuntimeError:tool_failed"
    /\ task[1].res.kind = "return"
    /\ task[1].res.line.kind = "result"

\* the failures of the transport: a line that is no JSON, a closed output
TransportFailures == {"JSONDecodeError", "RuntimeError:closed"}

\* C25: after a call ended with a failure of the transport, its connection
\* is no longer initialized, and a call of the same tool right after it
\* fails without writing anything.
C25_TransportFailureFailsConnection ==
    /\ (CallDone /\ task[1].res.exc \in TransportFailures
           /\ DictHas(clients, tool_registry[task[1].name])) =>
          ~client[DictGet(clients, tool_registry[task[1].name])].initialized
    /\ (CallDone /\ task[1].prev \in TransportFailures) =>
          /\ task[1].res.kind = "raise"
          /\ task[1].wlog = <<>>

\* C26: what call_tool() returns is a line that carries a result, and the
\* tools initialize_servers registers come from a line that carries a
\* result: a line with neither result nor error is never taken for a
\* successful empty answer.
C26_NoFieldsNotSuccess ==
    /\ (CallDone /\ task[1].res.kind = "return") =>
          task[1].res.line.kind = "result"
    /\ (task[1].mop = "init" /\ task[1].pc = "init_register") =>
          task[1].resp.kind = "result"

\* caller t is suspended in readline() on a running subprocess whose output
\* holds no line
WaitsForLine(t) ==
    /\ task[t].mop = "call" /\ task[t].pc = "req_wait"
    /\ proc[task[t].rp].alive
    /\ proc[task[t].rp].waiter = t
    /\ proc[task[t].rp].buf = <<>>

\* C27: a caller is left waiting only while the response to its own request
\* has not been written: once the server wrote it, whatever other calls are
\* still unanswered, the caller is not kept suspended.
C27_NotBlockedByOtherCall ==
    \A t \in TaskIds :
      WaitsForLine(t) =>
        \E req \in proc[task[t].rp].inbox : req.id = task[t].req_id

\* the stream is a sequence of complete documents, each followed by its
\* own newline
WellFormed(stream) ==
    /\ Len(stream) % 2 = 0
    /\ \A k \in 1..(Len(stream) \div 2) :
         /\ stream[2 * k - 1].part = "json"
         /\ stream[2 * k].part = "nl"
         /\ stream[2 * k].id = stream[2 * k - 1].id

\* C28: whatever the callers of one client do at the same time, what has
\* been written to the input of a subprocess is a sequence of complete
\* newline-terminated documents.
C28_SingleWriter == \A p \in Pids : WellFormed(proc[p].stdin)

\* two callers have both written a request to the same running subprocess
\* and neither has its response yet
C28_Witness ==
    /\ task[1].pc \in {"req_read", "req_wait"}
    /\ task[2].pc \in {"req_read", "req_wait"}
    /\ task[1].method \in {"tools/list", "tools/call"}
    /\ task[2].method \in {"tools/list", "tools/call"}
    /\ \E p \in Pids :
         /\ proc[p].alive
         /\ {task[1].req_id, task[2].req_id} \subseteq {q.id : q \in proc[p].inbox}
         /\ Len(proc[p].stdin) >= 8

\* the ids of the requests in a stream, in the order written
RequestIds(stream) ==
    LET docs == SelectSeq(stream, LAMBDA x : x.part = "json" /\ x.id # 0)
    IN  [k \in 1..Len(docs) |-> docs[k].id]

\* C29: the id counter of a client never goes back, also across stop() and
\* start(); every request written takes the counter's next value, so it is
\* greater than every id the client used before; the requests a subprocess
\* received carry strictly increasing ids, each once per document; and the
\* initialized notification carries no id and leaves the counter alone.
C29_FreshIds ==
    /\ [][\A c \in ClientIds :
            client'[c].request_id \in
              {client[c].request_id, client[c].request_id + 1}]_vars
    /\ [][\A p \in Pids : \A req \in Written(p) :
            \E c \in ClientIds :
              /\ client[c].process = p
              /\ req.id = client[c].request_id + 1
              /\ req.id = client'[c].request_id]_vars
    /\ [][\A p \in Pids : (proc'[p].notified /\ ~proc[p].notified) =>
            /\ client' = client
            /\ proc'[p].stdin = proc[p].stdin \o
                 <<[id |-> 0, part |-> "json"], [id |-> 0, part |-> "nl"]>>]_vars
    /\ [](\A p \in Pids :
            LET ids == RequestIds(proc[p].stdin) IN
            \A j, k \in 1..Len(ids) : (j < k) => ids[j] < ids[k])

\* after a stop(), a second start() wrote its initialize request to a new
\* subprocess under id 2
C29_Witness ==
    /\ proc[1].stdin # <<>> /\ proc[1].stdin[1].id = 1
    /\ proc[1].sig \in {"term", "kill"} /\ ~proc[1].alive
    /\ client[1].process = 2
    /\ proc[2].stdin # <<>> /\ proc[2].stdin[1].id = 2

\* task t takes the first step of a stop() that was called directly on a
\* connection that holds no subprocess (never started, or Closed)
StopOnClosed(t) ==
    /\ task[t].mop = "c_stop" /\ task[t].pc = "stop_begin"
    /\ client[task[t].cl].process = 0
    /\ task'[t] # task[t]

\* C30: stop() on a connection that holds no subprocess, because it was
\* never started or is already Closed, returns at once without an error,
\* signals no subprocess, logs nothing and changes nothing of the
\* connection, the subprocesses or the manager.
C30_StopIdempotent ==
    [][\A t \in TaskIds : StopOnClosed(t) =>
          /\ task'[t].pc = "done"
          /\ task'[t].res.kind = "return" /\ task'[t].res.exc = ""
          /\ client' = client
          /\ proc' = proc
          /\ emitted' = {}
          /\ UNCHANGED <<mgr, nclients, nprocs, att>>]_vars

\* a connection was started and stopped, and a second stop() on it, now
\* Closed, returned
C30_Witness ==
    /\ task[1].mop = "c_stop" /\ task[1].pc = "done" /\ task[1].again
    /\ task[1].res.kind = "return"
    /\ task[2].mop = "none"
    /\ nops = 3 /\ nprocs = 1
    /\ proc[1].sig \in {"term", "kill"}
    /\ client[1].process = 0 /\ ~client[1].initialized

\* task t leaves MCPClient.stop in this step, by returning or by raising
StopExits(t) == task[t].cop = "stop" /\ task'[t].cop # "stop"

\* subprocess p is force-killed in this step
Killed(p) == proc'[p].sig = "kill" /\ proc[p].sig # "kill"

\* C31: a force-kill is sent only by a stop() that asked its subprocess to
\* terminate, waited for it, and found it still running when the grace
\* interval expired, and only to a subprocess that has not exited; a stop()
\* that finds its subprocess exited kills nothing; and whenever a stop()
\* ends, by returning or by raising, the connection holds no subprocess, so
\* it is not Ready (if it went through the try block the initialized flag
\* is cleared too).
C31_GracefulThenKill ==
    /\ [][\A p \in Pids : Killed(p) =>
            /\ proc[p].alive
            /\ \E t \in TaskIds :
                  /\ task[t].pc = "stop_wait" /\ task'[t].pc = "stop_killwait"
                  /\ proc[task[t].rp].sig = "term"
                  /\ proc[task[t].rp].alive]_vars
    /\ [][\A t \in TaskIds :
            (task[t].pc = "stop_wait" /\ ~proc[task[t].rp].alive
               /\ task'[t] # task[t]) => proc' = proc]_vars
    /\ [][\A t \in TaskIds : StopExits(t) =>
            /\ client'[task[t].cl].process = 0
            /\ (task[t].pc # "stop_begin" \/ client[task[t].cl].process # 0)
                  => ~client'[task[t].cl].initialized]_vars

\* a stop() asked its subprocess to terminate, the grace interval expired,
\* it killed the subprocess and returned
C31_Witness ==
    /\ task[1].mop = "c_stop" /\ task[1].pc = "done"
    /\ task[1].res.kind = "return"
    /\ task[2].mop = "none"
    /\ nprocs = 1
    /\ proc[1].sig = "kill" /\ ~proc[1].alive
    /\ client[1].process = 0 /\ ~client[1].initialized

\* connection c becomes Ready in this step: start() sets its flag
BecomesReady(c) == ~client[c].initialized /\ client'[c].initialized

\* a stop() has asked a subprocess of the one connection to terminate: the
\* connection has been Closing
HasBeenClosing == \E p \in Pids : proc[p].sig # "none"

\* C32: a connection becomes Ready only from Starting, by a start() whose
\* initialize request was answered with a result under the request's id,
\* and a connection that has been Closing never becomes Ready again.
C32_LifecycleForward ==
    [][\A c \in ClientIds : BecomesReady(c) =>
          /\ \E t \in TaskIds :
                /\ task[t].cop = "start" /\ task[t].cl = c
                /\ task[t].pc = "start_done"
                /\ task[t].resp.kind = "result"
                /\ task[t].resp.id = task[t].req_id
          /\ ~HasBeenClosing]_vars

\* the second part alone
C32_NoReadyAfterClosing ==
    [][\A c \in ClientIds : BecomesReady(c) => ~HasBeenClosing]_vars

\* the subprocesses that run and that no connected client holds a handle of
Orphans ==
    {p \in Pids : /\ proc[p].alive
                  /\ ~\E c \in Connected(clients) : client[c].process = p}

\* C33: when initialize has ended, every subprocess that is running is held
\* by a client in the clients dict, and when a shutdown() has ended no
\* subprocess is running.
C33_NoOrphanAfterInit ==
    /\ InitDone => Orphans = {}
    /\ ShutdownDone => \A p \in Pids : ~proc[p].alive

\* the subprocesses that run
Live == {p \in Pids : proc[p].alive}

\* C34: every subprocess that runs is the one its connection holds the
\* handle of, so at most one runs per connection.
C34_OneLiveSubprocess ==
    /\ \A p \in Live : \E c \in ClientIds : client[c].process = p
    /\ Cardinality(Live) <= nclients

\* what list_all_tools has collected so far, or has returned
Collected(r) == IF r.pc = "done" THEN r.res.cat ELSE r.acc

\* list_all_tools gets the reply of the server it asked
ListAnswered ==
    /\ task[1].mop = "list" /\ task[1].pc = "lt_check"
    /\ task[1].resp.kind # "error"
    /\ task'[1] # task[1]

\* the tools/list of the server list_all_tools asked ends with an exception
ListFailed ==
    /\ task[1].mop = "list" /\ task[1].cop = "list_tools"
    /\ task'[1].cop # "list_tools"
    /\ ~ListAnswered

LookupStep ==
    \E t \in TaskIds :
      /\ task'[t] # task[t]
      /\ task'[t].mop \in {"list", "call"}

\* a step of an initialize_servers or of a shutdown
SetupStep ==
    \E t \in TaskIds :
      /\ task'[t] # task[t]
      /\ task[t].mop \in {"init", "shutdown"} /\ task[t].pc # "done"

\* C36: no step of list_all_tools or of the manager's call_tool changes the
\* registry or the clients dict, whatever the call ends with, and every
\* step that changes one of them is a step of initialize_servers or of
\* shutdown.
C36_CallsKeepRouting ==
    /\ [][LookupStep => UNCHANGED <<clients, tool_registry>>]_vars
    /\ [][(clients' # clients \/ tool_registry' # tool_registry)
            => SetupStep]_vars

\* a call of a registered tool on a connected server ended with the server's
\* error reply, and the registry still holds the tool
C36_Witness ==
    /\ task[1].mop = "call" /\ task[1].pc = "done"
    /\ task[1].res.exc = "RuntimeError:tool_failed"
    /\ tool_registry[task[1].name] # 0
    /\ DictHas(clients, tool_registry[task[1].name])

\* step() is in its loop
StepPending == agent.pc = "loop"

\* C37: step() ends, by returning or by raising; it runs at most
\* MAX_ITER + 1 = 11 states; with a terminal current state at the test of
\* the loop it returns without running it; it goes on to another pass only
\* when the state it ran is not terminal afterwards and a transition is
\* ready; and when it has returned, current_state is the agent_reply state.
C37_StepTerminates ==
    /\ StepPending ~> ~StepPending
    /\ [](agent.runs <= MAX_ITER + 1 /\ agent.runs <= 11)
    /\ [](agent.pc = "returned" => agent.current_state = AgentReply)
    /\ [][(StepPending /\ agent.is_terminal[agent.current_state]) =>
            /\ agent'.pc = "returned"
            /\ agent'.runs = agent.runs]_vars
    /\ [][(StepPending /\ agent'.pc = "loop") =>
            /\ agent'.runs = agent.runs + 1
            /\ ~agent'.is_terminal[agent.current_state]
            /\ agent'.ready]_vars

\* on a graph in which no state that is reached is terminal, step() returned
\* after eleven runs
C37_Witness ==
    /\ agent.pc = "returned"
    /\ agent.runs = MAX_ITER + 1
    /\ agent.printed = "MAX ITER REACHED"
    /\ agent.current_state = AgentReply

\* C38: a client whose initialized flag is set holds a subprocess handle,
\* and a step that clears the handle clears the flag too.
C38_InitializedHasHandle ==
    /\ [](\A c \in ClientIds :
            client[c].initialized => client[c].process # 0)
    /\ [][\A c \in ClientIds :
            (client[c].process # 0 /\ client'[c].process = 0)
              => ~client'[c].initialized]_vars

\* the second part alone: stop() clears the handle and the flag together
C38_StopClearsBoth ==
    [][\A c \in ClientIds :
          (client[c].process # 0 /\ client'[c].process = 0)
            => ~client'[c].initialized]_vars

====
